---- MODULE Spec2Model ----
(***************************************************************************)
(* statsd-cloudwatch: the statsd line parser, the per-type aggregation     *)
(* classes, Server.push and the Server.serve loop of                       *)
(* src/statsd_cloudwatch/main.py (a Python 2.7 program, see src/setup.py). *)
(*                                                                         *)
(* Text is modelled character by character: a Python string is a sequence  *)
(* of one-character strings, so that the regular expressions, the splits   *)
(* and float() are computed, not assumed.  A Python float is modelled as   *)
(* a normalised fraction <<n, d>>; the inputs enumerated below are chosen  *)
(* so that IEEE double arithmetic on them is exact on the results          *)
(* (1 / 0.1 = 10.0 and 1 / 0.5 = 2.0 in Python).                           *)
(***************************************************************************)
EXTENDS Integers, Sequences, FiniteSets, TLC

VARIABLES
    metrics,      \* Server.metrics: sanitized key -> metric object
    flush_due,    \* Server.flush_due
    running,      \* Server.running
    now,          \* the wall clock read by datetime.datetime.now(), in seconds
    pc,           \* position of Server.serve: "top", "select", "check", "stopped"
    received,     \* number of datagrams received so far (bounded by MaxDatagrams)
    feed,         \* which clients send to this run, a name of Feeds (fixed by Init)
    lastOp,       \* history of this iteration: "none", "process" or "push", the last call made
    lastData,     \* history of this iteration: the payload handed to Server.process
    lastTs,       \* history of this iteration: the time Server.process read, <<t>>, or <<>>
    lastExc,      \* history of this iteration: the exception the last call raised, or "none"
    preMetrics,   \* history of this iteration: Server.metrics when the last call started
    attempted,    \* history of this iteration: the records Server.push handed to put_metric_data, in order
    sinkRaised,   \* history of this iteration: <<key>> of the put_metric_data call that raised, or <<>>
    retried,      \* history of this iteration: keys Server.push handed to put_metric_data again after a raise
    failed,       \* history: keys of live metric objects one of whose put_metric_data calls raised
    checked,      \* history of this iteration: <<now, flush_due, pushed>> at the flush test, or <<>>
    flushTimes,   \* history: the times at which Server.push was called, in order
    raw,          \* Server.clean_key on its own: the key handed to it
    cleaned       \* Server.clean_key on its own: <<its result>>, or <<>> before the call

vars == <<metrics, flush_due, running, now, pc, received, feed,
          lastOp, lastData, lastTs, lastExc, preMetrics, attempted, sinkRaised, retried, failed,
          checked, flushTimes, raw, cleaned>>

-----------------------------------------------------------------------------
(* Bounds of the model *)

\* the raw keys handed to Server.clean_key have at most MaxKeyLen characters
MaxKeyLen == 3

\* the clock stops advancing at MaxTime
MaxTime == 120

\* number of datagrams the socket delivers in a run
MaxDatagrams == 2

\* amounts by which the clock is observed to advance between two steps
TickSteps == {30, 60}

\* time a call of Server.push can take
PushDurations == {0, 30}

-----------------------------------------------------------------------------
(* Sequences and characters *)

Range(s) == {s[i] : i \in 1..Len(s)}

Digits == {"0", "1", "2", "3", "4", "5", "6", "7", "8", "9"}

DigitVal ==
    [c \in Digits |->
        CASE c = "0" -> 0 [] c = "1" -> 1 [] c = "2" -> 2 [] c = "3" -> 3
          [] c = "4" -> 4 [] c = "5" -> 5 [] c = "6" -> 6 [] c = "7" -> 7
          [] c = "8" -> 8 [] c = "9" -> 9]

Letters ==
    {"a", "b", "c", "d", "e", "f", "g", "h", "i", "j", "k", "l", "m",
     "n", "o", "p", "q", "r", "s", "t", "u", "v", "w", "x", "y", "z",
     "A", "B", "C", "D", "E", "F", "G", "H", "I", "J", "K", "L", "M",
     "N", "O", "P", "Q", "R", "S", "T", "U", "V", "W", "X", "Y", "Z"}

\* the characters the regular-expression class \s matches (\v has no TLA+ escape)
Whitespace == {" ", "\t", "\n", "\r", "\f"}

\* index of the first occurrence of c in s at or after position from, 0 when there is none
RECURSIVE IndexFrom(_, _, _)
IndexFrom(s, c, from) ==
    IF from > Len(s) THEN 0
    ELSE IF s[from] = c THEN from
    ELSE IndexFrom(s, c, from + 1)

\* index of the last occurrence of c in s, 0 when there is none
RECURSIVE LastIndex(_, _, _)
LastIndex(s, c, upto) ==
    IF upto < 1 THEN 0
    ELSE IF s[upto] = c THEN upto
    ELSE LastIndex(s, c, upto - 1)

\* str.split(sep) for a one-character separator: n separators give n + 1 pieces
RECURSIVE Split(_, _)
Split(s, sep) ==
    LET i == IndexFrom(s, sep, 1)
    IN  IF i = 0 THEN <<s>>
        ELSE <<SubSeq(s, 1, i - 1)>> \o Split(SubSeq(s, i + 1, Len(s)), sep)

\* str.replace(old, new) for one-character strings
Replace(s, old, new) == [i \in 1..Len(s) |-> IF s[i] = old THEN new ELSE s[i]]

-----------------------------------------------------------------------------
(* Floats as normalised fractions <<n, d>>, d > 0 *)

Abs(x) == IF x < 0 THEN -x ELSE x

RECURSIVE GCD(_, _)
GCD(a, b) == IF b = 0 THEN a ELSE GCD(b, a % b)

Frac(n, d) ==
    LET g == GCD(Abs(n), Abs(d))
        s == IF d < 0 THEN -1 ELSE 1
    IN  <<(s * n) \div g, (s * d) \div g>>

Zero == <<0, 1>>

FAdd(x, y) == Frac(x[1] * y[2] + y[1] * x[2], x[2] * y[2])
FSub(x, y) == Frac(x[1] * y[2] - y[1] * x[2], x[2] * y[2])
FMul(x, y) == Frac(x[1] * y[1], x[2] * y[2])
FInv(x) == Frac(x[2], x[1])
FLess(x, y) == x[1] * y[2] < y[1] * x[2]

RECURSIVE Pow10(_)
Pow10(k) == IF k = 0 THEN 1 ELSE 10 * Pow10(k - 1)

\* value of a sequence of decimal digits
RECURSIVE DigitsVal(_)
DigitsVal(s) ==
    IF s = <<>> THEN 0
    ELSE 10 * DigitsVal(SubSeq(s, 1, Len(s) - 1)) + DigitVal[s[Len(s)]]

\* str.strip() of the whitespace at both ends
RECURSIVE Strip(_)
Strip(s) ==
    IF s = <<>> THEN s
    ELSE IF s[1] \in Whitespace THEN Strip(Tail(s))
    ELSE IF s[Len(s)] \in Whitespace THEN Strip(SubSeq(s, 1, Len(s) - 1))
    ELSE s

\* an unsigned decimal literal: digits with at most one point and at least one digit
\* (exponents, "inf" and "nan" are outside the alphabet of the inputs enumerated below)
IsDecimal(s) ==
    /\ Range(s) \subseteq Digits \cup {"."}
    /\ Cardinality({i \in 1..Len(s) : s[i] = "."}) <= 1
    /\ \E i \in 1..Len(s) : s[i] \in Digits

DecimalVal(s) ==
    LET p == IndexFrom(s, ".", 1)
        digs == IF p = 0 THEN s ELSE SubSeq(s, 1, p - 1) \o SubSeq(s, p + 1, Len(s))
        scale == IF p = 0 THEN 0 ELSE Len(s) - p
    IN  Frac(DigitsVal(digs), Pow10(scale))

\* float(text): [ok |-> FALSE] stands for ValueError
float(text) ==
    LET s == Strip(text)
        signed == s # <<>> /\ s[1] \in {"+", "-"}
        body == IF signed THEN Tail(s) ELSE s
    IN  IF ~IsDecimal(body) THEN [ok |-> FALSE, val |-> Zero]
        ELSE [ok |-> TRUE,
              val |-> IF signed /\ s[1] = "-"
                      THEN FSub(Zero, DecimalVal(body)) ELSE DecimalVal(body)]

-----------------------------------------------------------------------------
(* The metric classes.  A metric object is a record:                       *)
(*   kind       its class: "Counter", "Gauge", "Timer", "Histogram", "Set" *)
(*   value      _value of a Counter or Gauge (a fraction)                  *)
(*   samples    _value of a Timer or Histogram (the list, in append order) *)
(*   members    _value of a Set                                            *)
(*   timestamp  <<t>> once update has set self.timestamp, <<>> before      *)
(*   namespace, name   the two parts of the key, from Metric.__init__      *)
(*   acc        history: some update call on the object ran to its end and *)
(*              changed _value                                             *)
(* _value is kept in three typed fields because the classes store values   *)
(* of three different Python types in it.                                  *)

\* the configured root namespace, Server.namespace
RootNamespace == <<"S", "t", "a", "t", "s", "d">>

\* Metric.__init__: name.rsplit(".", 1) unpacked into two names raises
\* ValueError when the key holds no dot
CanConstruct(key) == LastIndex(key, ".", Len(key)) # 0

\* Metric.__init__ for class klass
NewMetric(klass, key) ==
    LET p == LastIndex(key, ".", Len(key))
    IN  [kind |-> klass,
         value |-> Zero,
         samples |-> <<>>,
         members |-> {},
         timestamp |-> <<>>,
         namespace |-> Replace(SubSeq(key, 1, p - 1), ".", "/"),
         name |-> SubSeq(key, p + 1, Len(key)),
         acc |-> FALSE]

\* Metric.namespace
Namespace(metric) == RootNamespace \o <<"/">> \o metric.namespace

\* Metric.update
MetricUpdate(metric, timestamp) == [metric EXCEPT !.timestamp = <<timestamp>>]

\* length of the longest prefix of s made of characters of set
RECURSIVE PrefixLen(_, _)
PrefixLen(s, set) ==
    IF s = <<>> \/ s[1] \notin set THEN 0 ELSE 1 + PrefixLen(Tail(s), set)

\* re.match('^@([\d\.]+)', arg): <<group 1>> on a match, <<>> for None
RateMatch(arg) ==
    IF arg = <<>> \/ arg[1] # "@" THEN <<>>
    ELSE LET n == PrefixLen(Tail(arg), Digits \cup {"."})
         IN  IF n = 0 THEN <<>> ELSE <<SubSeq(arg, 2, n + 1)>>

\* Counter.update scaling by the rate where the code scales by its inverse
CounterUpdateScaledByRate(metric, value, args, timestamp) ==
    LET m1 == MetricUpdate(metric, timestamp)
        rm == IF Len(args) = 1 THEN RateMatch(args[1]) ELSE <<>>
        rate == IF Len(args) = 1 /\ rm # <<>> THEN float(rm[1]) ELSE [ok |-> TRUE, val |-> <<1, 1>>]
        v == IF value = <<>> THEN [ok |-> TRUE, val |-> <<1, 1>>] ELSE float(value)
    IN  IF Len(args) = 1 /\ rm = <<>> THEN [metric |-> m1, exc |-> "AttributeError"]
        ELSE IF ~rate.ok THEN [metric |-> m1, exc |-> "ValueError"]
        ELSE IF Len(args) = 1 /\ rate.val = Zero THEN [metric |-> m1, exc |-> "none"]
        ELSE IF ~v.ok THEN [metric |-> m1, exc |-> "ValueError"]
        ELSE [metric |-> [m1 EXCEPT !.value = FAdd(@, FMul(v.val, rate.val)),
                                    !.acc = TRUE],
              exc |-> "none"]

\* Counter.update; the result is the object and the exception raised, or "none"
CounterUpdate(metric, value, args, timestamp) ==
    LET m1 == MetricUpdate(metric, timestamp)
        rm == IF Len(args) = 1 THEN RateMatch(args[1]) ELSE <<>>
        rate == IF Len(args) = 1 /\ rm # <<>> THEN float(rm[1]) ELSE [ok |-> TRUE, val |-> <<1, 1>>]
        v == IF value = <<>> THEN [ok |-> TRUE, val |-> <<1, 1>>] ELSE float(value)
    IN  IF Len(args) = 1 /\ rm = <<>> THEN [metric |-> m1, exc |-> "AttributeError"]
        ELSE IF ~rate.ok THEN [metric |-> m1, exc |-> "ValueError"]
        ELSE IF Len(args) = 1 /\ rate.val = Zero THEN [metric |-> m1, exc |-> "none"]
        ELSE IF ~v.ok THEN [metric |-> m1, exc |-> "ValueError"]
        ELSE [metric |-> [m1 EXCEPT !.value = FAdd(@, FMul(v.val, FInv(rate.val))),
                                    !.acc = TRUE],
              exc |-> "none"]

\* Gauge.update without the branch for "-": a value with a minus sign is set
GaugeUpdateAbsolute(metric, value, args, timestamp) ==
    LET m1 == MetricUpdate(metric, timestamp)
        relative == value # <<>> /\ value[1] = "+"
        v == IF relative THEN float(Tail(value)) ELSE float(value)
    IN  IF ~v.ok THEN [metric |-> m1, exc |-> "ValueError"]
        ELSE [metric |-> [m1 EXCEPT !.value = IF relative THEN FAdd(@, v.val) ELSE v.val,
                                    !.acc = TRUE],
              exc |-> "none"]

\* Gauge.update
GaugeUpdate(metric, value, args, timestamp) ==
    LET m1 == MetricUpdate(metric, timestamp)
        relative == value # <<>> /\ value[1] \in {"+", "-"}
        v == IF relative THEN float(Tail(value)) ELSE float(value)
    IN  IF ~v.ok THEN [metric |-> m1, exc |-> "ValueError"]
        ELSE [metric |-> [m1 EXCEPT !.value = IF relative /\ value[1] = "+" THEN FAdd(@, v.val)
                                             ELSE IF relative THEN FSub(@, v.val)
                                             ELSE v.val,
                                    !.acc = TRUE],
              exc |-> "none"]

\* Timer.update with the timestamp recorded after the value has parsed
TimerUpdateLateTimestamp(metric, value, args, timestamp) ==
    LET m1 == MetricUpdate(metric, timestamp)
        v == float(value)
    IN  IF ~v.ok THEN [metric |-> metric, exc |-> "ValueError"]
        ELSE [metric |-> [m1 EXCEPT !.samples = Append(@, v.val), !.acc = TRUE],
              exc |-> "none"]

\* Timer.update, inherited by Histogram
TimerUpdate(metric, value, args, timestamp) ==
    LET m1 == MetricUpdate(metric, timestamp)
        v == float(value)
    IN  IF ~v.ok THEN [metric |-> m1, exc |-> "ValueError"]
        ELSE [metric |-> [m1 EXCEPT !.samples = Append(@, v.val), !.acc = TRUE],
              exc |-> "none"]

\* Set.update
SetUpdate(metric, value, args, timestamp) ==
    LET m1 == MetricUpdate(metric, timestamp)
    IN  [metric |-> [m1 EXCEPT !.members = @ \cup {value}, !.acc = TRUE], exc |-> "none"]

\* self.metrics[metric].update(value, args, timestamp), by the class of the object
Update(metric, value, args, timestamp) ==
    CASE metric.kind = "Counter" -> CounterUpdate(metric, value, args, timestamp)
      [] metric.kind = "Gauge" -> GaugeUpdate(metric, value, args, timestamp)
      [] metric.kind \in {"Timer", "Histogram"} -> TimerUpdate(metric, value, args, timestamp)
      [] metric.kind = "Set" -> SetUpdate(metric, value, args, timestamp)

\* the class attribute unit
Unit(metric) ==
    CASE metric.kind = "Counter" -> "Count"
      [] metric.kind \in {"Timer", "Histogram"} -> "Milliseconds"
      [] OTHER -> "None"

RECURSIVE FSum(_)
FSum(s) == IF s = <<>> THEN Zero ELSE FAdd(s[1], FSum(Tail(s)))

\* the value property, were Timer to expose the sum of its samples as a value
ValueWithTimerSum(metric) ==
    CASE metric.kind \in {"Counter", "Gauge"} -> <<metric.value>>
      [] metric.kind = "Set" -> <<Frac(Cardinality(metric.members), 1)>>
      [] OTHER -> <<FSum(metric.samples)>>

\* the value property: <<v>>, or <<>> for the class attribute None of Timer
Value(metric) ==
    CASE metric.kind \in {"Counter", "Gauge"} -> <<metric.value>>
      [] metric.kind = "Set" -> <<Frac(Cardinality(metric.members), 1)>>
      [] OTHER -> <<>>

FMin(s) == CHOOSE x \in Range(s) : \A y \in Range(s) : ~FLess(y, x)
FMax(s) == CHOOSE x \in Range(s) : \A y \in Range(s) : ~FLess(x, y)

\* Timer.statistics: value[0] of an empty list raises IndexError; the class
\* attribute of the other classes is None
StatisticsRaises(metric) == metric.kind \in {"Timer", "Histogram"} /\ metric.samples = <<>>

Statistics(metric) ==
    IF metric.kind \in {"Timer", "Histogram"}
    THEN <<[minimum |-> FMin(metric.samples),
            maximum |-> FMax(metric.samples),
            sum |-> FSum(metric.samples),
            samplecount |-> Len(metric.samples)]>>
    ELSE <<>>

\* truth value of self.value: None and zero are false
ValueTruthy(metric) == Value(metric) # <<>> /\ Value(metric)[1] # Zero

\* the record Metric.push hands to put_metric_data
Record(key, metric) ==
    [key |-> key,
     namespace |-> Namespace(metric),
     name |-> metric.name,
     timestamp |-> metric.timestamp,
     unit |-> Unit(metric),
     value |-> Value(metric),
     statistics |-> Statistics(metric)]

\* Metric.push: "raise" (IndexError out of the statistics property), "skip"
\* (the early return) or "put" (put_metric_data is called)
MetricPush(metric) ==
    IF StatisticsRaises(metric) THEN "raise"
    ELSE IF Statistics(metric) = <<>> /\ ~ValueTruthy(metric) THEN "skip"
    ELSE "put"

-----------------------------------------------------------------------------
(* Server: the parser and the registry *)

\* Server.metric_types
metric_types ==
    (<<"c">> :> "Counter") @@ (<<"g">> :> "Gauge") @@ (<<"h">> :> "Timer") @@
    (<<"m">> :> "Histogram") @@ (<<"m", "s">> :> "Timer") @@ (<<"s">> :> "Set")

\* isinstance(object of class kind, klass): Histogram is a subclass of Timer
IsInstance(kind, klass) == kind = klass \/ (kind = "Histogram" /\ klass = "Timer")

\* re.sub(r'\s+', '_', s)
RECURSIVE CollapseWhitespace(_)
CollapseWhitespace(s) ==
    IF s = <<>> THEN s
    ELSE IF s[1] \in Whitespace
         THEN <<"_">> \o CollapseWhitespace(SubSeq(s, PrefixLen(s, Whitespace) + 1, Len(s)))
         ELSE <<s[1]>> \o CollapseWhitespace(Tail(s))

\* the characters the class [a-zA-Z_\-0-9\.] matches
KeyChars == Letters \cup Digits \cup {"_", "-", "."}

\* Server.clean_key with '/' replaced by '_' instead of '-'
clean_key_slash_as_underscore(key) ==
    SelectSeq(CollapseWhitespace(Replace(Replace(key, "/", "_"), " ", "_")),
              LAMBDA c : c \in KeyChars)

\* Server.clean_key
clean_key(key) ==
    SelectSeq(CollapseWhitespace(Replace(Replace(key, "/", "-"), " ", "_")),
              LAMBDA c : c \in KeyChars)

\* re.match('\A([^:]+):([^|]+)\|(.+)', line): the three groups, or <<>> for None
Match(line) ==
    LET i == IndexFrom(line, ":", 1)
        j == IF i = 0 THEN 0 ELSE IndexFrom(line, "|", i + 1)
    IN  IF i > 1 /\ j > i + 1 /\ j < Len(line)
        THEN <<SubSeq(line, 1, i - 1), SubSeq(line, i + 1, j - 1), SubSeq(line, j + 1, Len(line))>>
        ELSE <<>>

\* ProcessLine without the try/except around the lookup in metric_types:
\* an unknown type code raises KeyError out of the loop
ProcessLineNoCatch(m, line, timestamp) ==
    LET match == Match(line)
    IN  IF match = <<>> THEN [metrics |-> m, exc |-> "none"]
        ELSE
        LET metric == clean_key(match[1])
            value == match[2]
            args0 == Split(match[3], "|")
            metric_type == Head(args0)
            args == Tail(args0)
        IN  IF metric_type \notin DOMAIN metric_types THEN [metrics |-> m, exc |-> "KeyError"]
            ELSE
            LET klass == metric_types[metric_type]
            IN  IF metric \notin DOMAIN m /\ ~CanConstruct(metric)
                THEN [metrics |-> m, exc |-> "ValueError"]
                ELSE
                LET m1 == IF metric \notin DOMAIN m
                          THEN m @@ (metric :> NewMetric(klass, metric)) ELSE m
                IN  IF ~IsInstance(m1[metric].kind, klass) THEN [metrics |-> m1, exc |-> "none"]
                    ELSE
                    LET u == Update(m1[metric], value, args, timestamp)
                    IN  [metrics |-> [m1 EXCEPT ![metric] = u.metric], exc |-> u.exc]

\* one pass of the loop body of Server.process over one line; the result is
\* the registry and the exception that leaves the loop, or "none"
ProcessLine(m, line, timestamp) ==
    LET match == Match(line)
    IN  IF match = <<>> THEN [metrics |-> m, exc |-> "none"]
        ELSE
        LET metric == clean_key(match[1])
            value == match[2]
            args0 == Split(match[3], "|")
            metric_type == Head(args0)
            args == Tail(args0)
        IN  IF metric_type \notin DOMAIN metric_types THEN [metrics |-> m, exc |-> "none"]
            ELSE
            LET klass == metric_types[metric_type]
            IN  IF metric \notin DOMAIN m /\ ~CanConstruct(metric)
                THEN [metrics |-> m, exc |-> "ValueError"]
                ELSE
                LET m1 == IF metric \notin DOMAIN m
                          THEN m @@ (metric :> NewMetric(klass, metric)) ELSE m
                IN  IF ~IsInstance(m1[metric].kind, klass) THEN [metrics |-> m1, exc |-> "none"]
                    ELSE
                    LET u == Update(m1[metric], value, args, timestamp)
                    IN  [metrics |-> [m1 EXCEPT ![metric] = u.metric], exc |-> u.exc]

\* the loop of Server.process over the lines: an exception ends it
RECURSIVE ProcessLines(_, _, _)
ProcessLines(m, lines, timestamp) ==
    IF lines = <<>> THEN [metrics |-> m, exc |-> "none"]
    ELSE LET r == ProcessLine(m, Head(lines), timestamp)
         IN  IF r.exc # "none" THEN r ELSE ProcessLines(r.metrics, Tail(lines), timestamp)

\* Server.process
process(m, data, timestamp) == ProcessLines(m, Split(data, "\n"), timestamp)

\* the loop of Server.push over items, the list self.metrics.items() built
\* before the first deletion (Python 2), in the order the dict gives, which
\* the model leaves open; fails is the set of keys for which put_metric_data
\* raises.  An exception leaves the loop before the del of the current item.
RECURSIVE PushItems(_, _, _, _)
PushItems(m, items, fails, sent) ==
    IF items = <<>> THEN [metrics |-> m, attempted |-> sent, exc |-> "none", raised |-> <<>>]
    ELSE
    LET name == Head(items)
        rest == [k \in DOMAIN m \ {name} |-> m[k]]
        p == MetricPush(m[name])
    IN  CASE p = "raise" ->
               [metrics |-> m, attempted |-> sent, exc |-> "IndexError", raised |-> <<>>]
          [] p = "skip" -> PushItems(rest, Tail(items), fails, sent)
          [] p = "put" /\ name \in fails ->
               [metrics |-> m, attempted |-> Append(sent, Record(name, m[name])),
                exc |-> "SinkError", raised |-> <<name>>]
          [] p = "put" /\ name \notin fails ->
               PushItems(rest, Tail(items), fails, Append(sent, Record(name, m[name])))

\* Server.push
push(m, items, fails) == PushItems(m, items, fails, <<>>)

\* the orders in which a dict with the keys S can list its items
Orders(S) ==
    {f \in [1..Cardinality(S) -> S] : \A i, j \in 1..Cardinality(S) : f[i] = f[j] => i = j}

-----------------------------------------------------------------------------
(* The payloads the socket delivers *)

\* a.b:1|c: a Counter update
CounterOne == <<"a", ".", "b", ":", "1", "|", "c">>

\* a.b:-1|c: a Counter update that brings a Counter at 1 back to 0
CounterMinusOne == <<"a", ".", "b", ":", "-", "1", "|", "c">>

\* a.b:1|c|@0.1: a Counter update with a sampling rate
CounterSampled == <<"a", ".", "b", ":", "1", "|", "c", "|", "@", "0", ".", "1">>

\* a.b:1|c|@0: a Counter update with sampling rate 0
CounterRateZero == <<"a", ".", "b", ":", "1", "|", "c", "|", "@", "0">>

\* a.b:x|c: a Counter update whose value is no number
CounterBadValue == <<"a", ".", "b", ":", "x", "|", "c">>

\* a.b:|c: a Counter line with the value left out
CounterNoValue == <<"a", ".", "b", ":", "|", "c">>

\* a.b:0|g: a Gauge set to 0
GaugeZero == <<"a", ".", "b", ":", "0", "|", "g">>

\* a.b:5|g\na.b:+3|g\na.b:-2|g: a Gauge set, raised and lowered
GaugeSteps ==
    <<"a", ".", "b", ":", "5", "|", "g", "\n", "a", ".", "b", ":", "+", "3", "|", "g", "\n",
      "a", ".", "b", ":", "-", "2", "|", "g">>

\* a.b:+x|g: a relative Gauge update whose magnitude is no number
GaugeBadValue == <<"a", ".", "b", ":", "+", "x", "|", "g">>

\* c.d:x|ms: a Timer update whose value is no number
TimerBadValue == <<"c", ".", "d", ":", "x", "|", "m", "s">>

\* c.d:3|ms\nc.d:1|h\nc.d:2|ms: three Timer samples, by both Timer type codes
TimerSamples ==
    <<"c", ".", "d", ":", "3", "|", "m", "s", "\n", "c", ".", "d", ":", "1", "|", "h", "\n",
      "c", ".", "d", ":", "2", "|", "m", "s">>

\* c.d:1|m: a Histogram update
HistogramOne == <<"c", ".", "d", ":", "1", "|", "m">>

\* c.d:a|s\nc.d:a|s\nc.d:b|s: three Set updates with two distinct values
SetTwo ==
    <<"c", ".", "d", ":", "a", "|", "s", "\n", "c", ".", "d", ":", "a", "|", "s", "\n", "c",
      ".", "d", ":", "b", "|", "s">>

\* a.b:1|c\ngarbage\nc.d:2|zz\nc.d:4|ms: a malformed line and an unknown type code between two valid lines
Mixed ==
    <<"a", ".", "b", ":", "1", "|", "c", "\n", "g", "a", "r", "b", "a", "g", "e", "\n", "c",
      ".", "d", ":", "2", "|", "z", "z", "\n", "c", ".", "d", ":", "4", "|", "m", "s">>

\* foo:1|c|@0.1: a key without a dot
NoDot == <<"f", "o", "o", ":", "1", "|", "c", "|", "@", "0", ".", "1">>

\* a.b:2|c\nc.d:x|ms\na.b:2|c: a line that raises between two valid lines
Partial ==
    <<"a", ".", "b", ":", "2", "|", "c", "\n", "c", ".", "d", ":", "x", "|", "m", "s", "\n",
      "a", ".", "b", ":", "2", "|", "c">>

\* a/b c.d!:7|g: a bucket the sanitizer rewrites
Unclean == <<"a", "/", "b", " ", "c", ".", "d", "!", ":", "7", "|", "g">>

\* what the clients of one run send: counters and gauges on one key, timers,
\* histograms and sets on another, and payloads that exercise the parser
Feeds ==
    [scalars |-> {CounterOne, CounterMinusOne, CounterBadValue, GaugeZero, GaugeSteps, GaugeBadValue},
     samples |-> {CounterOne, TimerBadValue, TimerSamples, HistogramOne, SetTwo},
     parser |-> {Mixed, NoDot, Partial, Unclean, CounterSampled, CounterRateZero, CounterNoValue}]

-----------------------------------------------------------------------------
(* Server.__init__ and the loop of Server.serve *)

\* seconds between two flushes
Interval == 60

NoMetrics == [k \in {} |-> 0]

\* Server.__init__, then Server.serve up to the first test of self.running
Init ==
    /\ metrics = NoMetrics
    /\ now = 0
    /\ flush_due = 0
    /\ running = TRUE
    /\ pc = "top"
    /\ received = 0
    /\ feed \in DOMAIN Feeds
    /\ lastOp = "none"
    /\ lastData = <<>>
    /\ lastTs = <<>>
    /\ lastExc = "none"
    /\ preMetrics = NoMetrics
    /\ attempted = <<>>
    /\ sinkRaised = <<>>
    /\ retried = {}
    /\ failed = {}
    /\ checked = <<>>
    /\ flushTimes = <<>>
    /\ raw = <<>>
    /\ cleaned = <<>>

History == <<lastOp, lastData, lastTs, lastExc, preMetrics, attempted, sinkRaised, retried, failed>>

\* while self.running: a new iteration starts, or the loop ends
LoopTop ==
    /\ pc = "top"
    /\ pc' = IF running THEN "select" ELSE "stopped"
    /\ lastOp' = "none"
    /\ lastData' = <<>>
    /\ lastTs' = <<>>
    /\ lastExc' = "none"
    /\ preMetrics' = NoMetrics
    /\ attempted' = <<>>
    /\ sinkRaised' = <<>>
    /\ retried' = {}
    /\ checked' = <<>>
    /\ UNCHANGED <<metrics, flush_due, running, now, received, feed, failed, flushTimes, raw, cleaned>>

\* Receive without the try/except around self.process(data): an exception
\* leaves Server.serve
ReceiveNoCatch(data) ==
    /\ pc = "select"
    /\ received < MaxDatagrams
    /\ LET r == process(metrics, data, now)
       IN  /\ metrics' = r.metrics
           /\ lastExc' = r.exc
           /\ pc' = IF r.exc = "none" THEN "check" ELSE "stopped"
    /\ received' = received + 1
    /\ lastOp' = "process"
    /\ lastData' = data
    /\ lastTs' = <<now>>
    /\ preMetrics' = metrics
    /\ UNCHANGED <<flush_due, running, now, feed, attempted, sinkRaised, retried, failed,
                   checked, flushTimes, raw, cleaned>>

\* select returns the socket: recvfrom, then self.process(data) inside try/except
Receive(data) ==
    /\ pc = "select"
    /\ received < MaxDatagrams
    /\ LET r == process(metrics, data, now)
       IN  /\ metrics' = r.metrics
           /\ lastExc' = r.exc
    /\ received' = received + 1
    /\ pc' = "check"
    /\ lastOp' = "process"
    /\ lastData' = data
    /\ lastTs' = <<now>>
    /\ preMetrics' = metrics
    /\ UNCHANGED <<flush_due, running, now, feed, attempted, sinkRaised, retried, failed,
                   checked, flushTimes, raw, cleaned>>

\* select times out with nothing to read
Timeout ==
    /\ pc = "select"
    /\ pc' = "check"
    /\ UNCHANGED <<metrics, flush_due, running, now, received, feed, History,
                   checked, flushTimes, raw, cleaned>>

\* if datetime.datetime.now() > self.flush_due, with >= in place of >
FlushDueInclusive == now >= flush_due

\* if datetime.datetime.now() > self.flush_due
FlushDue == now > flush_due

\* Flush with the new flush_due set inside the try block, after self.push():
\* skipped when push raises
FlushAdvanceOnSuccess(items, fails, took) ==
    /\ pc = "check"
    /\ FlushDue
    /\ now + took <= MaxTime
    /\ LET r == push(metrics, items, fails)
       IN  /\ metrics' = r.metrics
           /\ lastExc' = r.exc
           /\ attempted' = r.attempted
           /\ sinkRaised' = r.raised
           /\ retried' = {r.attempted[i].key : i \in 1..Len(r.attempted)} \cap failed
           /\ failed' = (failed \cup Range(r.raised)) \cap DOMAIN r.metrics
           /\ flush_due' = IF r.exc = "none" THEN now + took + Interval ELSE flush_due
    /\ now' = now + took
    /\ pc' = "top"
    /\ lastOp' = "push"
    /\ preMetrics' = metrics
    /\ checked' = <<now, flush_due, TRUE>>
    /\ flushTimes' = Append(flushTimes, now)
    /\ UNCHANGED <<running, received, feed, lastData, lastTs, raw, cleaned>>

\* the flush is due: self.push() inside try/except, then the new flush_due
Flush(items, fails, took) ==
    /\ pc = "check"
    /\ FlushDue
    /\ now + took <= MaxTime
    /\ LET r == push(metrics, items, fails)
       IN  /\ metrics' = r.metrics
           /\ lastExc' = r.exc
           /\ attempted' = r.attempted
           /\ sinkRaised' = r.raised
           /\ retried' = {r.attempted[i].key : i \in 1..Len(r.attempted)} \cap failed
           /\ failed' = (failed \cup Range(r.raised)) \cap DOMAIN r.metrics
    /\ now' = now + took
    /\ flush_due' = now' + Interval
    /\ pc' = "top"
    /\ lastOp' = "push"
    /\ preMetrics' = metrics
    /\ checked' = <<now, flush_due, TRUE>>
    /\ flushTimes' = Append(flushTimes, now)
    /\ UNCHANGED <<running, received, feed, lastData, lastTs, raw, cleaned>>

\* the flush is not due
NoFlush ==
    /\ pc = "check"
    /\ ~FlushDue
    /\ pc' = "top"
    /\ checked' = <<now, flush_due, FALSE>>
    /\ UNCHANGED <<metrics, flush_due, running, now, received, feed, History,
                   flushTimes, raw, cleaned>>

\* time passes while select waits (and while push runs, see Flush)
Tick(d) ==
    /\ pc = "select"
    /\ now + d <= MaxTime
    /\ now' = now + d
    /\ UNCHANGED <<metrics, flush_due, running, pc, received, feed, History,
                   checked, flushTimes, raw, cleaned>>

\* Server.stop, called from outside the loop
Stop ==
    /\ pc # "stopped"
    /\ running
    /\ running' = FALSE
    /\ UNCHANGED <<metrics, flush_due, now, pc, received, feed, History,
                   checked, flushTimes, raw, cleaned>>

Next ==
    \/ LoopTop
    \/ \E data \in Feeds[feed] : Receive(data)
    \/ Timeout
    \/ \E items \in Orders(DOMAIN metrics), fails \in SUBSET DOMAIN metrics, took \in PushDurations :
          Flush(items, fails, took)
    \/ NoFlush
    \/ \E d \in TickSteps : Tick(d)
    \/ Stop

Spec == Init /\ [][Next]_vars

-----------------------------------------------------------------------------
(* Server.clean_key on its own: a key of the parser in, the sanitized key out *)

\* characters of the raw keys: a letter, the dot, the slash, two kinds of
\* whitespace and a character outside the allowed class
KeyAlphabet == {"a", ".", "/", " ", "\t", "!"}

\* group 1 of the line's regular expression, [^:]+ : non-empty, up to MaxKeyLen characters
RawKeys == UNION {[1..n -> KeyAlphabet] : n \in 1..MaxKeyLen}

KeyInit ==
    /\ raw \in RawKeys
    /\ cleaned = <<>>
    /\ metrics = NoMetrics
    /\ now = 0
    /\ flush_due = 0
    /\ running = TRUE
    /\ pc = "top"
    /\ received = 0
    /\ feed = "parser"
    /\ lastOp = "none"
    /\ lastData = <<>>
    /\ lastTs = <<>>
    /\ lastExc = "none"
    /\ preMetrics = NoMetrics
    /\ attempted = <<>>
    /\ sinkRaised = <<>>
    /\ retried = {}
    /\ failed = {}
    /\ checked = <<>>
    /\ flushTimes = <<>>

\* key = self.clean_key(key)
CleanKey ==
    /\ cleaned = <<>>
    /\ cleaned' = <<clean_key(raw)>>
    /\ UNCHANGED <<metrics, flush_due, running, now, pc, received, feed, History,
                   checked, flushTimes, raw>>

KeyNext == CleanKey

KeySpec == KeyInit /\ [][KeyNext]_vars

-----------------------------------------------------------------------------
(* Vocabulary of the properties *)

KeyAB == <<"a", ".", "b">>
KeyCD == <<"c", ".", "d">>
KeyFoo == <<"f", "o", "o">>

\* the lines of the payload of this iteration
LastLines == Split(lastData, "\n")

\* the line has the form bucket:value|type and its type code is in the table
IsValidLine(line) ==
    /\ Match(line) # <<>>
    /\ Head(Split(Match(line)[3], "|")) \in DOMAIN metric_types

\* the key and the class a valid line dispatches to
LineKey(line) == clean_key(Match(line)[1])
LineKlass(line) == metric_types[Head(Split(Match(line)[3], "|"))]

\* the keys of the records the push of this iteration handed to the sink
AttemptedKeys == {attempted[i].key : i \in 1..Len(attempted)}

\* number of records of this push for key k
TimesAttempted(k) == Cardinality({i \in 1..Len(attempted) : attempted[i].key = k})

\* the object holds no accepted update: a Counter or Gauge no update has
\* changed, a Timer, Histogram or Set with no element
HoldsNoUpdate(metric) ==
    CASE metric.kind \in {"Counter", "Gauge"} -> ~metric.acc
      [] metric.kind \in {"Timer", "Histogram"} -> metric.samples = <<>>
      [] metric.kind = "Set" -> metric.members = {}

-----------------------------------------------------------------------------
(* Properties *)

\* C1: after a push in which the sink raised nothing, whatever was processed
\* before it, the registry is empty (so nothing of it reaches the next push).
C1_RegistryEmptyAfterFlush ==
    (lastOp = "push" /\ sinkRaised = <<>>) => DOMAIN metrics = {}

\* C2: when the push raised an exception, the registry holds, once serve has
\* caught it, none of the keys it held when the push started.
C2_GenerationDiscardedOnException ==
    (lastOp = "push" /\ lastExc # "none") => DOMAIN metrics \cap DOMAIN preMetrics = {}

\* C3: when put_metric_data raises for one object, every other object of the
\* registry that Metric.push would publish is still handed to the sink by the
\* same push.
C3_SinkFailureDoesNotStopFlush ==
    (lastOp = "push" /\ sinkRaised # <<>>) =>
        \A k \in DOMAIN preMetrics : MetricPush(preMetrics[k]) = "put" => k \in AttemptedKeys

\* C4: no push hands to the sink a record of an object for which an earlier
\* put_metric_data call raised.
C4_NoRetryOfFailedPublish ==
    lastOp = "push" => retried = {}

\* C5: for a key bound before the payload, when every valid line of the
\* payload for that key dispatches to a class other than the bound one, the
\* object (class, accumulated state, timestamp) is unchanged.
C5_MismatchedUpdateRejected ==
    lastOp = "process" =>
        \A k \in DOMAIN preMetrics :
            (\A i \in 1..Len(LastLines) :
                (IsValidLine(LastLines[i]) /\ LineKey(LastLines[i]) = k)
                    => LineKlass(LastLines[i]) # preMetrics[k].kind)
            => metrics[k] = preMetrics[k]

\* C6: a push raises no error because of an object that holds no accepted
\* update, and makes no sink call for such an object.
C6_EmptyVariantsSkipped ==
    lastOp = "push" =>
        /\ lastExc # "IndexError"
        /\ \A k \in AttemptedKeys : ~HoldsNoUpdate(preMetrics[k])

\* C7: a push that ends without an exception has handed to the sink, exactly
\* once, every object that received an accepted update.
C7_FlushLossless ==
    (lastOp = "push" /\ lastExc = "none") =>
        \A k \in DOMAIN preMetrics : preMetrics[k].acc => TimesAttempted(k) = 1

\* C8: lines that do not match bucket:value|type and lines with an unknown
\* type code have no effect: processing the payload gives the registry and the
\* outcome that processing its valid lines alone gives.
C8_InvalidLinesSkipped ==
    lastOp = "process" =>
        LET r == ProcessLines(preMetrics, SelectSeq(LastLines, IsValidLine), lastTs[1])
        IN  metrics = r.metrics /\ lastExc = r.exc

\* C8, witnessed: a payload with invalid lines between two valid lines has been
\* processed, and both valid lines were applied
C8_Witness ==
    /\ lastOp = "process"
    /\ lastData = Mixed
    /\ lastExc = "none"
    /\ KeyAB \in DOMAIN metrics /\ metrics[KeyAB].timestamp = lastTs
    /\ KeyCD \in DOMAIN metrics /\ metrics[KeyCD].timestamp = lastTs
    /\ \E i \in 1..Len(LastLines) : ~IsValidLine(LastLines[i])

\* C9: a one-line payload whose value fails to parse leaves the object
\* already bound to its key as it was, accumulated state and timestamp.
C9_FailedParseLeavesVariantUnchanged ==
    (/\ lastOp = "process"
     /\ lastExc = "ValueError"
     /\ Len(LastLines) = 1
     /\ IsValidLine(LastLines[1])
     /\ LineKey(LastLines[1]) \in DOMAIN preMetrics)
    => metrics[LineKey(LastLines[1])] = preMetrics[LineKey(LastLines[1])]

\* C10: the line foo:1|c|@0.1, whose key holds no dot, raises nothing, binds
\* a Counter to foo when the key is free and raises that Counter by 10.
C10_DotlessKeyAccepted ==
    (lastOp = "process" /\ lastData = NoDot) =>
        /\ lastExc = "none"
        /\ KeyFoo \in DOMAIN metrics
        /\ metrics[KeyFoo].kind = "Counter"
        /\ metrics[KeyFoo].value =
               FAdd(IF KeyFoo \in DOMAIN preMetrics THEN preMetrics[KeyFoo].value ELSE Zero,
                    <<10, 1>>)

\* the value and the modifiers of a valid line
LineValue(line) == Match(line)[2]
LineArgs(line) == Tail(Split(Match(line)[3], "|"))

\* the registry value of key k before the payload, 0 for a key it creates
PreValue(k) == IF k \in DOMAIN preMetrics THEN preMetrics[k].value ELSE Zero

FDiv(x, y) == Frac(x[1] * y[2], x[2] * y[1])

\* C11: the line a.b:|c, with the value left out, is accepted and raises the
\* Counter bound to a.b by 1.
C11_CounterValueOmitted ==
    (/\ lastOp = "process"
     /\ lastData = CounterNoValue
     /\ (KeyAB \in DOMAIN preMetrics => preMetrics[KeyAB].kind = "Counter"))
    => /\ lastExc = "none"
       /\ KeyAB \in DOMAIN metrics
       /\ metrics[KeyAB].kind = "Counter"
       /\ metrics[KeyAB].value = FAdd(PreValue(KeyAB), <<1, 1>>)

\* what one Counter line adds according to C12: value / rate, rate 1 without
\* a modifier, nothing for rate 0
ClaimedIncrement(line) ==
    LET args == LineArgs(line)
        rate == IF Len(args) = 1 THEN float(RateMatch(args[1])[1]).val ELSE <<1, 1>>
    IN  IF rate = Zero THEN Zero ELSE FDiv(float(LineValue(line)).val, rate)

\* the sum of the claimed increments of the Counter lines of lines for key k
RECURSIVE ClaimedCounterSum(_, _)
ClaimedCounterSum(lines, k) ==
    IF lines = <<>> THEN Zero
    ELSE LET l == Head(lines)
             mine == IsValidLine(l) /\ LineKey(l) = k /\ LineKlass(l) = "Counter"
         IN  FAdd(IF mine THEN ClaimedIncrement(l) ELSE Zero, ClaimedCounterSum(Tail(lines), k))

\* C12: a payload processed without an exception leaves every Counter at its
\* value before the payload (0 for a new key) plus the sum of value / rate over
\* the payload's Counter lines for its key; a line with rate 0 adds nothing.
C12_CounterIsSumOfScaledValues ==
    /\ (lastOp = "process" /\ lastExc = "none") =>
            \A k \in DOMAIN metrics :
                metrics[k].kind = "Counter" =>
                    metrics[k].value = FAdd(PreValue(k), ClaimedCounterSum(LastLines, k))
    /\ (lastOp = "process" /\ lastData = CounterRateZero) => lastExc = "none"

\* C12, witnessed: after a sampled update brought the Counter to 10, an update
\* with rate 0 was processed, raised nothing and left it at 10
C12_Witness ==
    /\ lastOp = "process"
    /\ lastData = CounterRateZero
    /\ lastExc = "none"
    /\ KeyAB \in DOMAIN preMetrics /\ preMetrics[KeyAB].value = <<10, 1>>
    /\ metrics[KeyAB].value = <<10, 1>>

\* the fold of C13 over the Gauge lines of lines for key k, from cur
RECURSIVE ClaimedGaugeFold(_, _, _)
ClaimedGaugeFold(lines, k, cur) ==
    IF lines = <<>> THEN cur
    ELSE LET l == Head(lines)
             mine == IsValidLine(l) /\ LineKey(l) = k /\ LineKlass(l) = "Gauge"
             v == LineValue(l)
             step == IF v[1] = "+" THEN FAdd(cur, float(Tail(v)).val)
                     ELSE IF v[1] = "-" THEN FSub(cur, float(Tail(v)).val)
                     ELSE float(v).val
         IN  ClaimedGaugeFold(Tail(lines), k, IF mine THEN step ELSE cur)

\* C13: a payload processed without an exception leaves every Gauge at the
\* left fold of its Gauge lines for the key over the value before the payload
\* (0 for a new key): + adds the magnitude, - subtracts it, anything else sets.
C13_GaugeIsFoldOfUpdates ==
    (lastOp = "process" /\ lastExc = "none") =>
        \A k \in DOMAIN metrics :
            metrics[k].kind = "Gauge" =>
                metrics[k].value = ClaimedGaugeFold(LastLines, k, PreValue(k))

\* C13, witnessed: 5, +3, -2 were applied to a new Gauge, which holds 6
C13_Witness ==
    /\ lastOp = "process"
    /\ lastData = GaugeSteps
    /\ KeyAB \notin DOMAIN preMetrics
    /\ metrics[KeyAB].kind = "Gauge"
    /\ metrics[KeyAB].value = <<6, 1>>

\* C14: the loop leaves Running only from the test at the top of an iteration
\* and only when stop was requested; at that test a requested stop does end
\* it; and no step that raises an exception (in process or in push) ends it.
C14_OnlyStopEndsLoop ==
    [][/\ (pc # "stopped" /\ pc' = "stopped") => (pc = "top" /\ ~running)
       /\ (pc = "top" /\ ~running /\ pc' # pc) => pc' = "stopped"
       /\ lastExc' # "none" => pc' # "stopped"]_vars

\* C14, witnessed: push raised, stop was requested during the iteration, the
\* iteration has run to its end and the loop has not stopped yet
C14_Witness ==
    /\ lastOp = "push"
    /\ lastExc # "none"
    /\ ~running
    /\ pc = "top"

\* C15 as claimed: at the flush test of every iteration push is called exactly
\* when now >= flush_due, the case now = flush_due included
C15_FlushWhenDeadlineReached ==
    checked # <<>> => (checked[3] <=> checked[1] >= checked[2])

\* C15, amended: at the flush test of every iteration push is called exactly
\* when now > flush_due; it is not called when now <= flush_due, the case
\* now = flush_due included
C15_FlushWhenDeadlinePassed ==
    checked # <<>> => (checked[3] <=> checked[1] > checked[2])

\* C15, witnessed: the test ran with now = flush_due and push was not called
C15_Witness ==
    /\ checked # <<>>
    /\ checked[1] = checked[2]
    /\ ~checked[3]
    /\ lastOp # "push"

\* C16: every record handed to put_metric_data has exactly one of value and
\* statistics set: a Counter, a Gauge and a Set hand over a value and no
\* statistics, a Timer and a Histogram statistics and no value.
C16_ValueXorStatistics ==
    \A i \in 1..Len(attempted) :
        LET r == attempted[i]
            kind == preMetrics[r.key].kind
        IN  /\ (r.value = <<>>) # (r.statistics = <<>>)
            /\ kind \in {"Counter", "Gauge", "Set"} => (r.value # <<>> /\ r.statistics = <<>>)
            /\ kind \in {"Timer", "Histogram"} => (r.value = <<>> /\ r.statistics # <<>>)

\* C16, witnessed: one flush handed over the record of a Counter and the
\* record of a Timer
C16_Witness ==
    /\ lastOp = "push"
    /\ \E i, j \in 1..Len(attempted) :
          /\ preMetrics[attempted[i].key].kind = "Counter"
          /\ preMetrics[attempted[j].key].kind = "Timer"

\* the sanitizer as C17 words it: each '/' becomes '_', each maximal run of
\* whitespace becomes one '_', then the characters outside the class go
ClaimedCleanKey(key) ==
    SelectSeq(CollapseWhitespace(Replace(key, "/", "_")), LAMBDA c : c \in KeyChars)

\* what one character of the raw key contributes to the sanitized key: '-' for
\* '/', '_' for a space, '_' for the first of a run of other whitespace and
\* nothing for the rest of the run, itself for a character of the class,
\* nothing otherwise
KeyPiece(key, i) ==
    CASE key[i] = "/" -> <<"-">>
      [] key[i] = " " -> <<"_">>
      [] key[i] \in Whitespace \ {" "} ->
            IF i > 1 /\ key[i - 1] \in Whitespace \ {" "} THEN <<>> ELSE <<"_">>
      [] key[i] \in KeyChars -> <<key[i]>>
      [] OTHER -> <<>>

RECURSIVE KeyPieces(_, _)
KeyPieces(key, i) ==
    IF i > Len(key) THEN <<>> ELSE KeyPiece(key, i) \o KeyPieces(key, i + 1)

\* C17 as claimed: the sanitized key is the raw key with '/' turned into '_'
\* and each whitespace run into one '_', without the characters outside
\* [A-Za-z0-9_-.]
C17_SanitizerAsClaimed ==
    cleaned # <<>> => cleaned[1] = ClaimedCleanKey(raw)

\* C17, amended: the sanitized key is the raw key with each '/' turned into
\* '-', each space into '_' (one per space), each maximal run of other
\* whitespace into one '_', without the characters outside [A-Za-z0-9_-.]
C17_SanitizerAmended ==
    cleaned # <<>> => cleaned[1] = KeyPieces(raw, 1)

\* C17, witnessed: a key with a '/' and a run of two spaces was sanitized
C17_Witness ==
    /\ cleaned # <<>>
    /\ "/" \in Range(raw)
    /\ \E i \in 1..(Len(raw) - 1) : raw[i] = " " /\ raw[i + 1] = " "

\* C18: every step that calls push, whether push returns or raises, leaves
\* flush_due at the time read after the call plus the interval; no step
\* lowers flush_due; and a call of push comes at least one interval after the
\* call before it.
C18_DeadlineAdvancesAfterEveryFlush ==
    [][/\ flush_due' >= flush_due
       /\ flushTimes' # flushTimes =>
             /\ lastOp' = "push"
             /\ flush_due' = now' + Interval
             /\ flushTimes # <<>> => now - flushTimes[Len(flushTimes)] >= Interval]_vars

\* C18, witnessed: a second call of push raised, and flush_due stands one
\* interval after it
C18_Witness ==
    /\ lastOp = "push"
    /\ lastExc # "none"
    /\ Len(flushTimes) = 2
    /\ flush_due = now + Interval

\* C19 as claimed: when Server.process raised, the registry after the
\* exception was caught is the registry before the payload was handed over.
C19_FailedDatagramDroppedWhole ==
    (lastOp = "process" /\ lastExc # "none") => metrics = preMetrics

\* some line of the payload of this iteration is valid, has key k and
\* dispatches to a class the object bound to k is an instance of
HasUpdateFor(k) ==
    \E i \in 1..Len(LastLines) :
        /\ IsValidLine(LastLines[i])
        /\ LineKey(LastLines[i]) = k
        /\ IsInstance(metrics[k].kind, LineKlass(LastLines[i]))

\* C20: every object in the registry has its timestamp set; after a payload,
\* an object with no update in the payload keeps its timestamp, an object
\* updated by a payload that raised nothing carries the time process read, and
\* after a payload that raised an object carries that time or the timestamp it
\* had; every record handed to the sink carries the timestamp of its object.
C20_TimestampAlwaysSet ==
    /\ \A k \in DOMAIN metrics : metrics[k].timestamp # <<>>
    /\ lastOp = "process" =>
          \A k \in DOMAIN metrics :
              IF ~HasUpdateFor(k)
              THEN k \in DOMAIN preMetrics /\ metrics[k].timestamp = preMetrics[k].timestamp
              ELSE IF lastExc = "none"
              THEN metrics[k].timestamp = lastTs
              ELSE \/ metrics[k].timestamp = lastTs
                   \/ k \in DOMAIN preMetrics /\ metrics[k].timestamp = preMetrics[k].timestamp
    /\ \A i \in 1..Len(attempted) :
          /\ attempted[i].timestamp # <<>>
          /\ attempted[i].timestamp = preMetrics[attempted[i].key].timestamp

\* C20, witnessed: an update whose value failed to parse created a Timer, and
\* the Timer carries the time of that payload
C20_Witness ==
    /\ lastOp = "process"
    /\ lastExc = "ValueError"
    /\ \E k \in DOMAIN metrics \ DOMAIN preMetrics :
          /\ metrics[k].kind = "Timer"
          /\ metrics[k].samples = <<>>
          /\ metrics[k].timestamp = lastTs

====
